---- MODULE Spec2Model ----
(***************************************************************************)
(* A model of storages/backends/dropbox.py: DropBoxFile, DropBoxStorage    *)
(* and DropBoxTeamStorage.                                                 *)
(*                                                                         *)
(* Python strings that the code inspects character by character (paths and *)
(* names) are sequences of one-character strings: '/a/b' is                *)
(* <<"/", "a", "/", "b">>.  Byte strings (file contents) are sequences of  *)
(* numbers.  An optional value is a sequence of length 0 or 1.             *)
(***************************************************************************)
EXTENDS Integers, Sequences, FiniteSets, TLC

VARIABLES
    cfg,       \* constructor arguments and the settings module
    storage,   \* the storage object: kind, root_path, client, construction error
    ret,       \* outcome of the last _full_path / exists / listdir call
    listing,   \* the children the remote reports for a folder
    content,   \* the content stream handed to _save: data, position, closed
    pc,        \* position of the running _save
    target,    \* the name argument of the running _save
    calls,     \* the remote upload calls issued by the running _save, in order
    cursor,    \* the UploadSessionCursor of _chunked_upload (optional)
    commit,    \* the CommitInfo of _chunked_upload: its path (optional)
    store,     \* the remote files: a set of [path, data]
    session,   \* the remote upload session (optional)
    rfile,     \* the DropBoxFile returned by _open (optional)
    rd         \* what the last read of rfile returned (optional)

vars == <<cfg, storage, ret, listing, content, pc, target, calls, cursor, commit,
          store, session, rfile, rd>>

-----------------------------------------------------------------------------
(* Bounds of the model.                                                    *)

MaxNameLen == 4
MaxChildren == 3
MaxSize == 13
MaxAccess == 3

-----------------------------------------------------------------------------
(* Python values.                                                          *)

None == "None"
Unset == "Unset"

SL == "/"
BS == "\\"
DOT == "."

Truthy(v) == v # None /\ v # ""

PyOr(a, b) == IF Truthy(a) THEN a ELSE b

\* `path or default` for a str-or-None argument: None and '' are both falsy,
\* and both are the empty sequence here.
PyOrStr(a, b) == IF a # <<>> THEN a ELSE b

\* storages.utils.setting: getattr(settings, name, default), with c the
\* constructor inputs (arguments and settings module)
setting(c, name, default) ==
    IF c.settings[name] = Unset THEN default ELSE c.settings[name]

\* the same for DROPBOX_ROOT_PATH, whose value is a path (optional in c)
setting_path(c, default) ==
    IF c.root_setting = <<>> THEN default ELSE c.root_setting[1]

-----------------------------------------------------------------------------
(* str methods.                                                            *)

StartsWith(s, p) == Len(p) <= Len(s) /\ SubSeq(s, 1, Len(p)) = p

\* index of the leftmost occurrence of old in s, 0 if there is none
Find(s, old) ==
    LET hits == {i \in 1..(Len(s) - Len(old) + 1) :
                    SubSeq(s, i, i + Len(old) - 1) = old}
    IN IF hits = {} THEN 0 ELSE CHOOSE i \in hits : \A j \in hits : i <= j

RECURSIVE Replace(_, _, _, _)
\* s.replace(old, new, count); count = -1 replaces every occurrence.
\* old is never empty in this program.
Replace(s, old, new, count) ==
    LET i == Find(s, old)
    IN IF count = 0 \/ i = 0 \/ old = <<>> THEN s
       ELSE SubSeq(s, 1, i - 1) \o new \o
            Replace(SubSeq(s, i + Len(old), Len(s)), old, new, count - 1)

RECURSIVE Split(_, _)
\* s.split(sep) for a one-character sep
Split(s, sep) ==
    LET i == Find(s, <<sep>>)
    IN IF i = 0 THEN <<s>>
       ELSE <<SubSeq(s, 1, i - 1)>> \o Split(SubSeq(s, i + 1, Len(s)), sep)

RECURSIVE Join(_, _)
\* sep.join(comps)
Join(comps, sep) ==
    IF comps = <<>> THEN <<>>
    ELSE IF Len(comps) = 1 THEN comps[1]
    ELSE comps[1] \o <<sep>> \o Join(Tail(comps), sep)

RECURSIVE RStrip(_, _)
RStrip(s, c) ==
    IF s # <<>> /\ s[Len(s)] = c THEN RStrip(SubSeq(s, 1, Len(s) - 1), c) ELSE s

-----------------------------------------------------------------------------
(* posixpath, as used by django.utils._os.safe_join.                       *)

isabs(p) == StartsWith(p, <<SL>>)

\* posixpath.join(a, b)
path_join(a, b) ==
    IF isabs(b) THEN b
    ELSE IF a = <<>> \/ a[Len(a)] = SL THEN a \o b
    ELSE a \o <<SL>> \o b

RECURSIVE NormComps(_, _, _)
\* the loop of posixpath.normpath over the components
NormComps(comps, new_comps, initial_slashes) ==
    IF comps = <<>> THEN new_comps
    ELSE LET comp == Head(comps)
             rest == Tail(comps)
         IN IF comp = <<>> \/ comp = <<DOT>>
            THEN NormComps(rest, new_comps, initial_slashes)
            ELSE IF \/ comp # <<DOT, DOT>>
                    \/ (initial_slashes = 0 /\ new_comps = <<>>)
                    \/ (new_comps # <<>> /\ new_comps[Len(new_comps)] = <<DOT, DOT>>)
            THEN NormComps(rest, Append(new_comps, comp), initial_slashes)
            ELSE IF new_comps # <<>>
            THEN NormComps(rest, SubSeq(new_comps, 1, Len(new_comps) - 1),
                           initial_slashes)
            ELSE NormComps(rest, new_comps, initial_slashes)

\* posixpath.normpath
normpath(path) ==
    IF path = <<>> THEN <<DOT>>
    ELSE LET initial_slashes ==
                 IF ~StartsWith(path, <<SL>>) THEN 0
                 ELSE IF StartsWith(path, <<SL, SL>>) /\ ~StartsWith(path, <<SL, SL, SL>>)
                 THEN 2 ELSE 1
             comps == NormComps(Split(path, SL), <<>>, initial_slashes)
             joined == Join(comps, SL)
             out == [i \in 1..initial_slashes |-> SL] \o joined
         IN IF out = <<>> THEN <<DOT>> ELSE out

\* os.getcwd(): only relative paths consult it
getcwd == <<SL>>

\* posixpath.abspath
abspath(p) == normpath(IF isabs(p) THEN p ELSE path_join(getcwd, p))

\* posixpath.dirname
dirname(d) ==
    LET slashes == {i \in 1..Len(d) : d[i] = SL}
        i == IF slashes = {} THEN 0
             ELSE CHOOSE k \in slashes : \A j \in slashes : j <= k
        head == SubSeq(d, 1, i)
    IN IF head # <<>> /\ head # [k \in 1..Len(head) |-> SL]
       THEN RStrip(head, SL) ELSE head

\* django.utils._os.safe_join(base, rel): <<final_path>>, or <<>> when it
\* raises SuspiciousFileOperation
safe_join(base, rel) ==
    LET final_path == abspath(path_join(base, rel))
        base_path == abspath(base)
    IN IF /\ ~StartsWith(final_path, base_path \o <<SL>>)
          /\ final_path # base_path
          /\ dirname(base_path) # base_path
       THEN <<>>
       ELSE <<final_path>>

\* DropBoxStorage._full_path under a given root: <<path>>, or <<>> when
\* safe_join raises
full_path_of(root, name) ==
    LET n == IF name = <<SL>> THEN <<>> ELSE name
        joined == safe_join(root, n)
    IN IF joined = <<>> THEN <<>>
       ELSE <<Replace(joined[1], <<BS>>, <<SL>>, -1)>>

_full_path(given) == full_path_of(storage.root_path, given)

-----------------------------------------------------------------------------
(* Construction.                                                           *)

Unbuilt == [kind |-> "none", root_path |-> <<>>, client |-> <<>>,
            error |-> None, detail |-> None]

\* DropBoxStorage.__init__(oauth2_access_token, root_path)
DropBoxStorage__init__(c) ==
    LET oauth2_access_token == PyOr(c.token_arg, setting(c, "DROPBOX_OAUTH2_TOKEN", None))
        root_path == PyOrStr(c.root_arg, setting_path(c, <<SL>>))
    IN IF oauth2_access_token = None
       THEN [kind |-> "DropBoxStorage", root_path |-> root_path, client |-> <<>>,
             error |-> "ImproperlyConfigured", detail |-> "DROPBOX_OAUTH2_TOKEN"]
       ELSE [kind |-> "DropBoxStorage", root_path |-> root_path,
             client |-> <<[cls |-> "Dropbox", token |-> oauth2_access_token]>>,
             error |-> None, detail |-> None]

\* DropBoxTeamStorage.__init__ without its check of team_admin
DropBoxTeamStorage__init__NoAdminCheck(c) ==
    LET oauth2_access_token == PyOr(c.token_arg, setting(c, "DROPBOX_OAUTH2_TOKEN", None))
        team_namespace == PyOr(c.ns_arg, setting(c, "DROPBOX_TEAM_NAMESPACE", None))
        root_path == PyOrStr(c.root_arg, setting_path(c, <<SL>>))
        failed(exc, what) ==
            [kind |-> "DropBoxTeamStorage", root_path |-> root_path, client |-> <<>>,
             error |-> exc, detail |-> what]
    IN IF oauth2_access_token = None
       THEN failed("ImproperlyConfigured", "DROPBOX_OAUTH2_TOKEN")
       ELSE IF team_namespace = None
       THEN failed("ImproperlyConfigured", "DROPBOX_TEAM_NAMESPACE")
       ELSE failed("NameError", "DropboxTeam")

\* DropBoxTeamStorage.__init__(oauth2_access_token, root_path, headers,
\* team_namespace, team_admin).  The module imports Dropbox only, so the
\* reference to DropboxTeam on the last statement raises NameError.
DropBoxTeamStorage__init__(c) ==
    LET oauth2_access_token == PyOr(c.token_arg, setting(c, "DROPBOX_OAUTH2_TOKEN", None))
        team_namespace == PyOr(c.ns_arg, setting(c, "DROPBOX_TEAM_NAMESPACE", None))
        team_admin == PyOr(c.admin_arg, setting(c, "DROPBOX_TEAM_ADMIN", None))
        root_path == PyOrStr(c.root_arg, setting_path(c, <<SL>>))
        failed(exc, what) ==
            [kind |-> "DropBoxTeamStorage", root_path |-> root_path, client |-> <<>>,
             error |-> exc, detail |-> what]
    IN IF oauth2_access_token = None
       THEN failed("ImproperlyConfigured", "DROPBOX_OAUTH2_TOKEN")
       ELSE IF team_namespace = None
       THEN failed("ImproperlyConfigured", "DROPBOX_TEAM_NAMESPACE")
       ELSE IF team_admin = None
       THEN failed("ImproperlyConfigured", "DROPBOX_TEAM_ADMIN")
       ELSE failed("NameError", "DropboxTeam")

SettingNames == {"DROPBOX_OAUTH2_TOKEN", "DROPBOX_TEAM_NAMESPACE", "DROPBOX_TEAM_ADMIN"}

\* what a caller may pass and what the settings module may hold
ArgValues == {None, "", "v"}
SettingValues == {Unset, "", "s"}
Roots == {<<SL>>, <<SL, "a">>, <<SL, "a", SL>>, <<SL, "a", SL, "b">>}

Configs ==
    [token_arg : ArgValues, ns_arg : ArgValues, admin_arg : {None, "v"},
     root_arg : {<<>>, <<SL, "a">>},
     settings : [SettingNames -> SettingValues],
     root_setting : {<<>>, <<<<SL, "b">>>>}]

\* the inputs of DropBoxStorage(token, root): explicit arguments, no settings
ArgConfig(root) ==
    [token_arg |-> "v", ns_arg |-> None, admin_arg |-> None, root_arg |-> root,
     settings |-> [n \in SettingNames |-> Unset], root_setting |-> <<>>]

\* the parts of the state an operation does not touch
NoRet == [op |-> "none", arg |-> <<>>, remote |-> "none", status |-> "none",
          value |-> <<>>]
NoContent == [data |-> <<>>, pos |-> 0, closed |-> TRUE]

Quiet ==
    /\ ret = NoRet
    /\ listing = <<>>
    /\ content = NoContent
    /\ pc = "idle"
    /\ target = <<>>
    /\ calls = <<>>
    /\ cursor = <<>>
    /\ commit = <<>>
    /\ store = {}
    /\ session = <<>>
    /\ rfile = <<>>
    /\ rd = <<>>

InitConstruct ==
    /\ cfg \in Configs
    /\ storage = Unbuilt
    /\ Quiet

ConstructBase ==
    /\ storage.kind = "none"
    /\ storage' = DropBoxStorage__init__(cfg)
    /\ UNCHANGED <<cfg, ret, listing, content, pc, target, calls, cursor, commit,
                   store, session, rfile, rd>>

ConstructTeam ==
    /\ storage.kind = "none"
    /\ storage' = DropBoxTeamStorage__init__(cfg)
    /\ UNCHANGED <<cfg, ret, listing, content, pc, target, calls, cursor, commit,
                   store, session, rfile, rd>>

NextConstruct == ConstructBase \/ ConstructTeam

SpecConstruct == InitConstruct /\ [][NextConstruct]_vars

-----------------------------------------------------------------------------
(* Path resolution, as a function of the root and the name.                *)

Alphabet == {SL, DOT, BS, "a"}

Names == UNION {[1..n -> Alphabet] : n \in 0..MaxNameLen}

\* a storage built by DropBoxStorage(token, root) for a root of Roots
InitBuilt ==
    /\ \E root \in Roots : cfg = ArgConfig(root)
    /\ storage = DropBoxStorage__init__(cfg)

InitPath == InitBuilt /\ Quiet

\* a call of _full_path(name); the outcome is kept in ret
FullPath ==
    /\ ret.op = "none"
    /\ \E name \in Names :
          LET p == _full_path(name)
          IN ret' = [op |-> "_full_path", arg |-> name, remote |-> "none",
                     status |-> IF p = <<>> THEN "SuspiciousFileOperation" ELSE "returned",
                     value |-> p]
    /\ UNCHANGED <<cfg, storage, listing, content, pc, target, calls, cursor, commit,
                   store, session, rfile, rd>>

NextPath == FullPath

SpecPath == InitPath /\ [][NextPath]_vars

-----------------------------------------------------------------------------
(* exists and listdir against the remote metadata call.                    *)

\* how a remote call can end: it succeeds, raises ApiError (not found, or
\* another API error), or raises an error that is no ApiError
RemoteOutcomes == {"ok", "ApiError:not_found", "ApiError:other", "HttpError"}

IsApiError(outcome) == outcome \in {"ApiError:not_found", "ApiError:other"}

\* what a raising remote call raises
Raised(outcome) == IF IsApiError(outcome) THEN "ApiError" ELSE outcome

ChildNames == {<<"a">>, <<"c">>, <<"a", "b">>, <<"b", DOT, "t", "x", "t">>}

\* the children a folder can hold: distinct names, each a file or a directory
Listings ==
    {l \in UNION {[1..n -> [name : ChildNames, is_dir : BOOLEAN]] : n \in 0..MaxChildren} :
        \A i, j \in 1..Len(l) : l[i].name = l[j].name => i = j}

\* the path the remote reports for a child of a folder
child_path(folder, name) ==
    IF folder = <<SL>> THEN <<SL>> \o name ELSE folder \o <<SL>> \o name

\* the metadata the remote returns for a folder: a non-empty dict
metadata_of(folder) ==
    [path |-> folder, is_dir |-> TRUE,
     contents |-> [i \in 1..Len(listing) |->
                     [path |-> child_path(folder, listing[i].name),
                      is_dir |-> listing[i].is_dir]]]

\* bool(d) of a dict
PyBool(d) == DOMAIN d # {}

\* exists without its except clause: every error propagates
exists_except_reraise(outcome) == [status |-> Raised(outcome), value |-> <<>>]

\* the except clause of exists: what the call does when the metadata call
\* raises `outcome`
exists_except(outcome) ==
    IF IsApiError(outcome)
    THEN [status |-> "returned", value |-> <<FALSE>>]
    ELSE [status |-> Raised(outcome), value |-> <<>>]

\* DropBoxStorage.exists(name) when the metadata call ends with `outcome`
exists(name, outcome) ==
    LET p == _full_path(name)
    IN IF p = <<>> THEN [status |-> "SuspiciousFileOperation", value |-> <<>>]
       ELSE IF outcome = "ok"
       THEN [status |-> "returned", value |-> <<PyBool(metadata_of(p[1]))>>]
       ELSE exists_except(outcome)

\* the replace calls of listdir without their count of 1
strip_entry_path_all(path, full_path) ==
    Replace(Replace(path, full_path, <<>>, -1), <<SL>>, <<>>, -1)

\* the two replace calls of listdir on an entry's path
strip_entry_path(path, full_path) ==
    Replace(Replace(path, full_path, <<>>, 1), <<SL>>, <<>>, 1)

RECURSIVE listdir_loop(_, _, _, _)
\* the for loop of listdir over metadata['contents']
listdir_loop(contents, full_path, directories, files) ==
    IF contents = <<>> THEN <<directories, files>>
    ELSE LET entry == Head(contents)
             path == strip_entry_path(entry.path, full_path)
         IN IF entry.is_dir
            THEN listdir_loop(Tail(contents), full_path, Append(directories, path), files)
            ELSE listdir_loop(Tail(contents), full_path, directories, Append(files, path))

\* DropBoxStorage.listdir(path) when the metadata call ends with `outcome`
listdir(path, outcome) ==
    LET p == _full_path(path)
    IN IF p = <<>> THEN [status |-> "SuspiciousFileOperation", value |-> <<>>]
       ELSE IF outcome # "ok" THEN [status |-> Raised(outcome), value |-> <<>>]
       ELSE [status |-> "returned",
             value |-> listdir_loop(metadata_of(p[1]).contents, p[1], <<>>, <<>>)]

QueryNames == {<<SL>>, <<>>, <<"a">>, <<SL, "a">>, <<"a", SL, "c">>,
               <<DOT, DOT, SL, "x">>, <<SL, "x">>}

InitMeta ==
    /\ InitBuilt
    /\ listing \in Listings
    /\ ret = NoRet
    /\ content = NoContent
    /\ pc = "idle"
    /\ target = <<>>
    /\ calls = <<>>
    /\ cursor = <<>>
    /\ commit = <<>>
    /\ store = {}
    /\ session = <<>>
    /\ rfile = <<>>
    /\ rd = <<>>

\* exists and listdir change neither the storage nor the remote, so a
\* behaviour makes one call: its inputs are drawn here, its outcome kept in ret
Exists ==
    /\ ret.op = "none"
    /\ \E name \in QueryNames, outcome \in RemoteOutcomes :
          LET r == exists(name, outcome)
          IN ret' = [op |-> "exists", arg |-> name,
                     remote |-> IF _full_path(name) = <<>> THEN "none" ELSE outcome,
                     status |-> r.status, value |-> r.value]
    /\ UNCHANGED <<cfg, storage, listing, content, pc, target, calls, cursor, commit,
                   store, session, rfile, rd>>

Listdir ==
    /\ ret.op = "none"
    /\ \E path \in QueryNames, outcome \in RemoteOutcomes :
          LET r == listdir(path, outcome)
          IN ret' = [op |-> "listdir", arg |-> path,
                     remote |-> IF _full_path(path) = <<>> THEN "none" ELSE outcome,
                     status |-> r.status, value |-> r.value]
    /\ UNCHANGED <<cfg, storage, listing, content, pc, target, calls, cursor, commit,
                   store, session, rfile, rd>>

NextMeta == Exists \/ Listdir

SpecMeta == InitMeta /\ [][NextMeta]_vars

-----------------------------------------------------------------------------
(* Properties of construction, path resolution, exists and listdir.        *)

\* a required value is absent: no argument (None or '') and no setting
Absent(arg, name) == ~Truthy(arg) /\ cfg.settings[name] = Unset

ConfigError == storage.error = "ImproperlyConfigured" /\ storage.client = <<>>

\* C8: construction fails with a configuration error, and builds no client,
\* whenever a required setting is absent: the access token for both classes,
\* the team namespace and the team admin for the team variant (whether or
\* not the token is present).
C8_ConfigErrorWhenRequiredAbsent ==
    storage.kind # "none" =>
        /\ Absent(cfg.token_arg, "DROPBOX_OAUTH2_TOKEN") => ConfigError
        /\ (/\ storage.kind = "DropBoxTeamStorage"
            /\ \/ Absent(cfg.ns_arg, "DROPBOX_TEAM_NAMESPACE")
               \/ Absent(cfg.admin_arg, "DROPBOX_TEAM_ADMIN")) => ConfigError

\* the team variant was constructed with a token and a namespace but no admin
C8_Witness ==
    /\ storage.kind = "DropBoxTeamStorage"
    /\ cfg.token_arg = "v"
    /\ ~Absent(cfg.ns_arg, "DROPBOX_TEAM_NAMESPACE")
    /\ Absent(cfg.admin_arg, "DROPBOX_TEAM_ADMIN")
    /\ ConfigError
    /\ storage.detail = "DROPBOX_TEAM_ADMIN"

\* the segments a '/'-separated path denotes, '.' and '..' resolved
Segments(p) == NormComps(Split(p, SL), <<>>, 1)

\* p is root or lies under it
Within(p, root) ==
    LET ps == Segments(p)
        rs == Segments(root)
    IN Len(rs) <= Len(ps) /\ SubSeq(ps, 1, Len(rs)) = rs

\* C4: for every root and every name, _full_path either raises or returns a
\* path that is the root or lies under it, and '/' resolves to the root.
C4_ResolveNeverLeavesRoot ==
    ret.op = "_full_path" =>
        /\ ret.status = "returned" => Within(ret.value[1], storage.root_path)
        /\ ret.arg = <<SL>> =>
              /\ ret.status = "returned"
              /\ Segments(ret.value[1]) = Segments(storage.root_path)

\* C3: exists returns False, and does not raise, when the metadata call
\* raises a not-found ApiError, and returns True when the metadata call
\* succeeds.
C3_ExistsFalseOnNotFound ==
    ret.op = "exists" =>
        /\ ret.remote = "ApiError:not_found" =>
              ret.status = "returned" /\ ret.value = <<FALSE>>
        /\ ret.remote = "ok" => ret.status = "returned" /\ ret.value = <<TRUE>>

\* exists was called and the metadata call raised a not-found ApiError
C3_Witness ==
    /\ ret.op = "exists"
    /\ ret.remote = "ApiError:not_found"
    /\ ret.value = <<FALSE>>

NamesOf(entries) == [i \in 1..Len(entries) |-> entries[i].name]
IsDir(e) == e.is_dir
IsFile(e) == ~e.is_dir

\* C7: listdir returns (directories, files) where directories are the names
\* of the children flagged as directories and files the names of the others,
\* each in the order the remote reported them, each name being the child's
\* reported path without the resolved folder path and the separator.
C7_ListdirPartitions ==
    (ret.op = "listdir" /\ ret.status = "returned") =>
        /\ ret.value[1] = NamesOf(SelectSeq(listing, IsDir))
        /\ ret.value[2] = NamesOf(SelectSeq(listing, IsFile))

\* listdir('/a') on children '/a/b.txt' (file) and '/a/c' (directory)
C7_Witness ==
    /\ ret.op = "listdir"
    /\ storage.root_path = <<SL>>
    /\ ret.arg = <<SL, "a">>
    /\ listing = <<[name |-> <<"b", DOT, "t", "x", "t">>, is_dir |-> FALSE],
                   [name |-> <<"c">>, is_dir |-> TRUE]>>
    /\ ret.value = << <<<<"c">>>>, <<<<"b", DOT, "t", "x", "t">>>> >>

-----------------------------------------------------------------------------
(* _save, _chunked_upload, _open and DropBoxFile.file.                     *)

\* DropBoxStorage.CHUNK_SIZE = 4 * 1024 * 1024, counted in MiB: a content of
\* length n stands for n MiB, each element for one MiB of bytes
CHUNK_SIZE == 4

\* the upload methods of the client
UPLOAD == "files_upload"
START == "files_upload_session_start"
APPEND == "files_upload_session_append_v2"
FINISH == "files_upload_session_finish"

Min(a, b) == IF a <= b THEN a ELSE b
Max(a, b) == IF a >= b THEN a ELSE b

\* the contents handed to save: every length up to MaxSize, with all
\* elements distinct (a ramp) or alternating
Contents ==
    {[i \in 1..n |-> i] : n \in 0..MaxSize} \cup {[i \in 1..n |-> i % 2] : n \in 0..MaxSize}

SaveNames == {<<"f">>, <<"d", SL, "f">>, <<SL, "a", SL, "f">>, <<DOT, DOT, SL, "x">>}

size(c) == Len(c.data)
tell(c) == c.pos

\* content.read(n): the bytes returned; n = -1 reads to the end
read_bytes(c, n) ==
    SubSeq(c.data, c.pos + 1, IF n < 0 THEN Len(c.data) ELSE Min(c.pos + n, Len(c.data)))

\* the stream after content.read(n)
read_seek(c, n) == [c EXCEPT !.pos = c.pos + Len(read_bytes(c, n))]

\* the test of _save with < for <=
single_shot_strict(c) == size(c) < CHUNK_SIZE

\* the test of _save: the content goes up in one files_upload call
single_shot(c) == size(c) <= CHUNK_SIZE

\* the test of the loop of _chunked_upload
unread_remains(c) == tell(c) < size(c)

\* the test inside the loop with < for <=
remaining_fits_strict(c) == (size(c) - tell(c)) < CHUNK_SIZE

\* the test inside the loop: the rest fits one chunk, finish the session
remaining_fits(c) == (size(c) - tell(c)) <= CHUNK_SIZE

\* the cursor created with offset 0
new_cursor_zero(session_id, c) == [session_id |-> session_id, offset |-> 0]

\* UploadSessionCursor(session_id=upload_session.session_id,
\* offset=content.tell())
new_cursor(session_id, c) == [session_id |-> session_id, offset |-> tell(c)]

\* the cursor left as it is after an append
advance_skipped(cur, c) == cur

\* cursor.offset = content.tell()
advance(cur, c) == [cur EXCEPT !.offset = tell(c)]

\* the remote writes a chunk into a session at the offset of the cursor;
\* a position no chunk covered holds -1
place(buf, offset, chunk) ==
    [i \in 1..Max(Len(buf), offset + Len(chunk)) |->
        IF i > offset /\ i <= offset + Len(chunk) THEN chunk[i - offset]
        ELSE IF i <= Len(buf) THEN buf[i]
        ELSE -1]

\* the remote stores data at path, replacing what was there
put(files, path, data) ==
    {f \in files : f.path # path} \cup {[path |-> path, data |-> data]}

Call(op, chunk, offset, c) ==
    [op |-> op, n |-> Len(chunk), offset |-> offset, tell |-> tell(c)]

SaveRaised(exc) ==
    ret' = [op |-> "_save", arg |-> target[1], remote |-> "none", status |-> exc,
            value |-> <<>>]

Quiescent == pc \in {"idle", "returned", "raised"}

\* _save(name, content): content.open() and the choice of the branch
Save ==
    /\ pc = "idle"
    /\ \E name \in SaveNames, data \in Contents :
          /\ target' = <<name>>
          /\ content' = [data |-> data, pos |-> 0, closed |-> FALSE]
          /\ pc' = IF single_shot(content') THEN "upload" ELSE "chunked"
    /\ calls' = <<>>
    /\ UNCHANGED <<cfg, storage, ret, listing, cursor, commit, store, session, rfile, rd>>

\* self.client.files_upload(content.read(), self._full_path(name))
FilesUpload ==
    /\ pc = "upload"
    /\ LET data == read_bytes(content, -1)
           after == read_seek(content, -1)
           p == _full_path(target[1])
       IN /\ content' = after
          /\ IF p = <<>>
             THEN /\ pc' = "raised"
                  /\ SaveRaised("SuspiciousFileOperation")
                  /\ UNCHANGED <<calls, store>>
             ELSE \E outcome \in RemoteOutcomes :
                  /\ calls' = Append(calls, Call(UPLOAD, data, 0, after))
                  /\ IF outcome = "ok"
                     THEN /\ store' = put(store, p[1], data)
                          /\ pc' = "close"
                          /\ UNCHANGED ret
                     ELSE /\ pc' = "raised"
                          /\ SaveRaised(Raised(outcome))
                          /\ UNCHANGED store
    /\ UNCHANGED <<cfg, storage, listing, target, cursor, commit, session, rfile, rd>>

\* the call of _chunked_upload up to the loop: _full_path, session start,
\* cursor and commit
ChunkedStart ==
    /\ pc = "chunked"
    /\ LET p == _full_path(target[1])
           chunk == read_bytes(content, CHUNK_SIZE)
           after == read_seek(content, CHUNK_SIZE)
       IN IF p = <<>>
          THEN /\ pc' = "raised"
               /\ SaveRaised("SuspiciousFileOperation")
               /\ UNCHANGED <<content, calls, cursor, commit, session>>
          ELSE /\ content' = after
               /\ calls' = Append(calls, Call(START, chunk, 0, after))
               /\ \E outcome \in RemoteOutcomes :
                    IF outcome = "ok"
                    THEN /\ session' = <<[session_id |-> 1, data |-> chunk, open |-> TRUE]>>
                         /\ cursor' = <<new_cursor(1, after)>>
                         /\ commit' = p
                         /\ pc' = "loop"
                         /\ UNCHANGED ret
                    ELSE /\ pc' = "raised"
                         /\ SaveRaised(Raised(outcome))
                         /\ UNCHANGED <<cursor, commit, session>>
    /\ UNCHANGED <<cfg, storage, listing, target, store, rfile, rd>>

\* files_upload_session_finish(content.read(CHUNK_SIZE), cursor, commit)
SessionFinish ==
    /\ pc = "loop"
    /\ unread_remains(content)
    /\ remaining_fits(content)
    /\ LET chunk == read_bytes(content, CHUNK_SIZE)
           after == read_seek(content, CHUNK_SIZE)
       IN /\ content' = after
          /\ calls' = Append(calls, Call(FINISH, chunk,
                                         cursor[1].offset, after))
          /\ \E outcome \in RemoteOutcomes :
               IF outcome = "ok"
               THEN /\ store' = put(store, commit[1],
                                    place(session[1].data, cursor[1].offset, chunk))
                    /\ session' = <<[session[1] EXCEPT !.open = FALSE]>>
                    /\ pc' = "loop"
                    /\ UNCHANGED ret
               ELSE /\ pc' = "raised"
                    /\ SaveRaised(Raised(outcome))
                    /\ UNCHANGED <<store, session>>
    /\ UNCHANGED <<cfg, storage, listing, target, cursor, commit, rfile, rd>>

\* files_upload_session_append_v2(content.read(CHUNK_SIZE), cursor)
SessionAppend ==
    /\ pc = "loop"
    /\ unread_remains(content)
    /\ ~remaining_fits(content)
    /\ LET chunk == read_bytes(content, CHUNK_SIZE)
           after == read_seek(content, CHUNK_SIZE)
       IN /\ content' = after
          /\ calls' = Append(calls, Call(APPEND, chunk,
                                         cursor[1].offset, after))
          /\ \E outcome \in RemoteOutcomes :
               IF outcome = "ok"
               THEN /\ session' = <<[session[1] EXCEPT
                                       !.data = place(@, cursor[1].offset, chunk)]>>
                    /\ pc' = "advance"
                    /\ UNCHANGED ret
               ELSE /\ pc' = "raised"
                    /\ SaveRaised(Raised(outcome))
                    /\ UNCHANGED session
    /\ UNCHANGED <<cfg, storage, listing, target, cursor, commit, store, rfile, rd>>

\* cursor.offset = content.tell(), after an append
Advance ==
    /\ pc = "advance"
    /\ cursor' = <<advance(cursor[1], content)>>
    /\ pc' = "loop"
    /\ UNCHANGED <<cfg, storage, ret, listing, content, target, calls, commit,
                   store, session, rfile, rd>>

\* the loop condition fails: _chunked_upload returns
LoopExit ==
    /\ pc = "loop"
    /\ ~unread_remains(content)
    /\ pc' = "close"
    /\ UNCHANGED <<cfg, storage, ret, listing, content, target, calls, cursor, commit,
                   store, session, rfile, rd>>

\* content.close(); return name
Close ==
    /\ pc = "close"
    /\ content' = [content EXCEPT !.closed = TRUE]
    /\ pc' = "returned"
    /\ ret' = [op |-> "_save", arg |-> target[1], remote |-> "none",
               status |-> "returned", value |-> target]
    /\ UNCHANGED <<cfg, storage, listing, target, calls, cursor, commit,
                   store, session, rfile, rd>>

\* the steps of _save from the loop of _chunked_upload on
LoopStep ==
    \/ SessionFinish
    \/ SessionAppend
    \/ Advance
    \/ LoopExit
    \/ Close

NextSave == Save \/ FilesUpload \/ ChunkedStart \/ LoopStep

InitSave == InitBuilt /\ Quiet

\* _save alone.  The code is synchronous and single-threaded: once in the
\* loop, a running _save takes its next step.
SpecSave == InitSave /\ [][NextSave]_vars /\ WF_vars(LoopStep)

-----------------------------------------------------------------------------
(* _open and DropBoxFile.                                                  *)

\* DropBoxFile.__init__(name, storage): no _file attribute yet
DropBoxFile__init__(path) ==
    [name |-> path, file |-> <<>>, downloads |-> 0, failed |-> 0, accesses |-> 0]

\* the property that never finds _file
file_never_cached(rf) == FALSE

\* hasattr(self, '_file')
file_cached(rf) == rf.file # <<>>

\* client.files_download(path) when the call ends with `outcome`: the bytes
\* stored at path, or <<>> when the call raises (a path that is not stored
\* raises ApiError)
files_download(path, outcome) ==
    LET found == {f \in store : f.path = path}
    IN IF outcome = "ok" /\ found # {}
       THEN <<(CHOOSE f \in found : TRUE).data>>
       ELSE <<>>

\* DropBoxFile.file: the object after the property was read; the download
\* is requested when there is no _file, and _file is the copy of the
\* response, rewound
file(rf, outcome) ==
    IF file_cached(rf)
    THEN [rf EXCEPT !.accesses = @ + 1]
    ELSE LET response == files_download(rf.name, outcome)
         IN IF response = <<>>
            THEN [rf EXCEPT !.accesses = @ + 1, !.downloads = @ + 1, !.failed = @ + 1]
            ELSE [rf EXCEPT !.accesses = @ + 1, !.downloads = @ + 1,
                            !.file = <<[id |-> rf.downloads + 1,
                                        data |-> response[1], pos |-> 0]>>]

\* DropBoxStorage._open(name, mode)
Open ==
    /\ Quiescent
    /\ rfile = <<>>
    /\ \E name \in SaveNames :
          LET p == _full_path(name)
          IN IF p = <<>>
             THEN /\ ret' = [op |-> "_open", arg |-> name, remote |-> "none",
                             status |-> "SuspiciousFileOperation", value |-> <<>>]
                  /\ UNCHANGED rfile
             ELSE /\ rfile' = <<DropBoxFile__init__(p[1])>>
                  /\ UNCHANGED ret
    /\ UNCHANGED <<cfg, storage, listing, content, pc, target, calls, cursor, commit,
                   store, session, rd>>

\* an access to the file property of the DropBoxFile
FileAccess ==
    /\ Quiescent
    /\ rfile # <<>>
    /\ rfile[1].accesses < MaxAccess
    /\ \E outcome \in RemoteOutcomes :
          LET rf == file(rfile[1], outcome)
          IN /\ rfile' = <<rf>>
             /\ rd' = IF rf.file = <<>> THEN <<>>
                      ELSE <<[kind |-> "access", buf |-> rf.file[1].id,
                              from |-> rf.file[1].pos, bytes |-> <<>>]>>
    /\ UNCHANGED <<cfg, storage, ret, listing, content, pc, target, calls, cursor, commit,
                   store, session>>

\* read() on the DropBoxFile: self.file.read()
FileRead ==
    /\ Quiescent
    /\ rfile # <<>>
    /\ rfile[1].accesses < MaxAccess
    /\ \E outcome \in RemoteOutcomes :
          LET rf == file(rfile[1], outcome)
          IN IF rf.file = <<>>
             THEN rfile' = <<rf>> /\ rd' = <<>>
             ELSE /\ rfile' = <<[rf EXCEPT !.file = <<read_seek(rf.file[1], -1)>>]>>
                  /\ rd' = <<[kind |-> "read", buf |-> rf.file[1].id,
                              from |-> rf.file[1].pos,
                              bytes |-> read_bytes(rf.file[1], -1)]>>
    /\ UNCHANGED <<cfg, storage, ret, listing, content, pc, target, calls, cursor, commit,
                   store, session>>

Init == InitBuilt /\ Quiet

Next == NextSave \/ Open \/ FileAccess \/ FileRead

\* a storage, one save and one DropBoxFile
Spec == Init /\ [][Next]_vars

-----------------------------------------------------------------------------
(* Properties of _save and _chunked_upload.                                *)

RECURSIVE SumBytes(_)
SumBytes(cs) == IF cs = <<>> THEN 0 ELSE Head(cs).n + SumBytes(Tail(cs))

Ops == [i \in 1..Len(calls) |-> calls[i].op]

Ended == pc \in {"returned", "raised"}

\* the calls of a whole save: one files_upload, or start, appends, finish,
\* carrying the whole content between them
FullPattern ==
    LET s == size(content)
        n == Len(calls)
    IN /\ SumBytes(calls) = s
       /\ IF s <= CHUNK_SIZE
          THEN Ops = <<UPLOAD>>
          ELSE /\ n >= 2
               /\ Ops[1] = START
               /\ Ops[n] = FINISH
               /\ \A i \in 2..(n - 1) : Ops[i] = APPEND

\* C1 as stated: every save, however it ends, has issued one files_upload
\* (size <= CHUNK_SIZE) or one session start, appends and one session finish
\* (size > CHUNK_SIZE), carrying size bytes in all.
C1_EverySaveIssuesFullPattern == Ended => FullPattern

\* C1: a save that returns has issued exactly one files_upload and no session
\* call when size <= CHUNK_SIZE, and exactly one session start, then appends,
\* then exactly one session finish and no files_upload when size >
\* CHUNK_SIZE, the calls carrying size bytes in all; a save that raises has
\* issued a prefix of that sequence (none when the name is rejected).
C1_ReturnedSaveIssuedFullPattern ==
    LET s == size(content)
        n == Len(calls)
    IN pc # "idle" =>
         /\ pc = "returned" => FullPattern
         /\ SumBytes(calls) <= s
         /\ IF s <= CHUNK_SIZE
            THEN n <= 1 /\ \A i \in 1..n : Ops[i] = UPLOAD
            ELSE /\ \A i \in 1..n : Ops[i] = IF i = 1 THEN START
                                               ELSE IF i = n /\ Ops[n] = FINISH THEN FINISH
                                               ELSE APPEND

\* a save of more than three chunks returned: start, two appends, finish
C1_Witness ==
    /\ pc = "returned"
    /\ Ops = <<START, APPEND, APPEND, FINISH>>
    /\ SumBytes(calls) = size(content)

\* C6: whenever save has ended, by returning or by raising, the content
\* stream is closed.
C6_ContentClosedOnEveryExit == Ended => content.closed

\* C9 as stated: from the creation of the cursor on, cursor.offset equals
\* the read position of the content.
C9_OffsetEqualsReadPosition == cursor # <<>> => cursor[1].offset = tell(content)

Finished == \E i \in 1..Len(calls) : Ops[i] = FINISH

\* C9: cursor.offset equals the read position when the cursor is created and
\* each time the loop condition is evaluated before the finish call; an
\* append or finish call is issued after its chunk was read, with the
\* offset at the read position before that chunk (the bytes the earlier calls
\* carried); the offset never exceeds the read position, never decreases
\* from call to call, and stays where it was after the finish call.
C9_OffsetIsBytesBeforeChunk ==
    cursor # <<>> =>
        /\ (pc = "loop" /\ ~Finished) => cursor[1].offset = tell(content)
        /\ cursor[1].offset <= tell(content)
        /\ \A i \in 2..Len(calls) :
              /\ calls[i].offset = calls[i].tell - calls[i].n
              /\ calls[i].offset = SumBytes(SubSeq(calls, 1, i - 1))
              /\ calls[i - 1].offset <= calls[i].offset
              /\ calls[i].offset <= cursor[1].offset
        /\ Finished => cursor[1].offset = calls[Len(calls)].offset

\* the loop is about to be tested again after two appends
C9_Witness ==
    /\ pc = "loop"
    /\ Ops = <<START, APPEND, APPEND>>
    /\ cursor # <<>>
    /\ cursor[1].offset = 3 * CHUNK_SIZE
    /\ tell(content) = 3 * CHUNK_SIZE

\* what a returned chunked upload leaves behind
ChunkedDone ==
    LET n == Len(calls)
    IN /\ tell(content) = size(content)
       /\ n >= 2
       /\ Ops[n] = FINISH
       /\ calls[n].n >= 1
       /\ calls[n].n <= CHUNK_SIZE
       /\ \A i \in 1..(n - 1) : Ops[i] # FINISH /\ calls[i].n = CHUNK_SIZE
       /\ size(content) % CHUNK_SIZE = 0 => calls[n].n = CHUNK_SIZE

\* C10: a chunked upload (size > CHUNK_SIZE) whose remote calls succeed
\* terminates, with the whole content read and session finish as its last
\* call, carrying 1..CHUNK_SIZE bytes (CHUNK_SIZE when size is a multiple of
\* it), every earlier call carrying exactly CHUNK_SIZE bytes.
C10_ChunkedUploadTerminates ==
    (pc = "loop" /\ size(content) > CHUNK_SIZE)
        ~> (pc = "raised" \/ (pc = "returned" /\ ChunkedDone))

\* a content of three whole chunks was saved
C10_Witness ==
    /\ pc = "returned"
    /\ size(content) = 3 * CHUNK_SIZE
    /\ Ops = <<START, APPEND, FINISH>>
    /\ calls[3].n = CHUNK_SIZE

-----------------------------------------------------------------------------
(* Properties of _open and DropBoxFile.                                    *)

\* the file opened is the one the returned save wrote
OpenedSaved ==
    /\ pc = "returned"
    /\ rfile # <<>>
    /\ <<rfile[1].name>> = _full_path(target[1])

\* C2: after save(name, content) returned, the first read of the file that
\* open(name) returns yields the bytes of content, whatever its size.
C2_RoundTrip ==
    (OpenedSaved /\ rd # <<>> /\ rd[1].kind = "read" /\ rd[1].from = 0) =>
        rd[1].bytes = content.data

\* a content of more than three chunks was saved, opened and read back
C2_Witness ==
    /\ OpenedSaved
    /\ rd # <<>>
    /\ rd[1].kind = "read"
    /\ rd[1].from = 0
    /\ Len(rd[1].bytes) = 3 * CHUNK_SIZE + 1
    /\ rd[1].bytes = content.data
    /\ Ops = <<START, APPEND, APPEND, FINISH>>

\* C5 as stated: open issues no remote call, the download is requested on
\* the first access only, and every later access returns the cached buffer.
C5_DownloadOnFirstAccessOnly ==
    rfile # <<>> =>
        /\ rfile[1].accesses = 0 => rfile[1].downloads = 0
        /\ rfile[1].accesses >= 1 => rfile[1].downloads = 1
        /\ rd # <<>> => rfile[1].file # <<>> /\ rd[1].buf = rfile[1].file[1].id

\* C5: open issues no remote call; an access requests the download exactly
\* when no earlier files_download call of this DropBoxFile has returned (a
\* call that raises caches nothing, and the next access requests it again);
\* once a call has returned, every later access returns that one cached
\* buffer and requests no download.
C5_DownloadUntilFirstSuccess ==
    rfile # <<>> =>
        LET rf == rfile[1]
        IN /\ rf.accesses = 0 => rf.downloads = 0
           /\ rf.downloads <= rf.accesses
           /\ rf.downloads = rf.failed + (IF rf.file = <<>> THEN 0 ELSE 1)
           /\ rf.file # <<>> => rf.file[1].id = rf.downloads
           /\ rd # <<>> => rf.file # <<>> /\ rd[1].buf = rf.file[1].id

\* the first download raised, the second returned, the third access found
\* the cached buffer
C5_Witness ==
    /\ rfile # <<>>
    /\ rfile[1].accesses = 3
    /\ rfile[1].failed = 1
    /\ rfile[1].downloads = 2
    /\ rfile[1].file # <<>>
    /\ rd # <<>>
    /\ rd[1].buf = 2

====
